---- MODULE Spec2Model ----
(***************************************************************************)
(* Bearer-token authentication of the broker (server/bearer_auth.go).      *)
(*                                                                         *)
(* One authentication attempt is BearerAuth.Check on a connection.  The    *)
(* attempt is followed statement by statement: pc[c] is the position of    *)
(* the attempt on connection c.  The token is the attempt's input; the     *)
(* header and the signature are fixed when the attempt starts, and each    *)
(* claim of the payload is fixed at the first statement that reads it and  *)
(* keeps that value for the rest of the attempt.                           *)
(*                                                                         *)
(* Times are whole seconds (time.Now().Unix()); a numeric claim of the     *)
(* payload is a JSON number, kept in half seconds so that the conversion   *)
(* int64(float64) has a fraction to drop.                                  *)
(*                                                                         *)
(* Spec starts after bearerAuthFactory has returned the authenticator and  *)
(* runs one attempt at a time; SpecBoot starts before bearerAuthFactory;   *)
(* SpecConc interleaves the attempts of the connections; SpecErr is the    *)
(* API error catalogue (IsNatsErr, ErrOr, ErrOrNewT) exercised by          *)
(* server/jetstream_errors_test.go.                                        *)
(***************************************************************************)
EXTENDS Integers, Sequences, FiniteSets, TLC

\* ---- bounds of the model
NumConns == 2
MaxClock == 2
MaxExp == 3

\* ---- the program's values

Conns == 1..NumConns

\* c.(*client) succeeds ("client") or not ("other": any other ClientAuthentication)
ConnKinds == {"client", "other"}

\* RSA public keys, and the fingerprint ssh.FingerprintLegacyMD5 gives each
Keys == {"key1", "key2"}
NilKey == "nil"

FingerprintLegacyMD5(k) == IF k = "key1" THEN "fp1" ELSE "fp2"

\* the key of JWT_SIGNER_PUBLIC_KEY
ConfiguredKey == "key1"

\* header "alg": RS256 is a *jwt.SigningMethodRSA, PS256 a *jwt.SigningMethodRSAPSS,
\* HS256 a *jwt.SigningMethodHMAC; XX is no registered signing method
Algs == {"RS256", "PS256", "HS256", "XX"}

RegisteredAlgs == {"RS256", "PS256", "HS256"}

\* header "kid": absent, present and not a string, or a string
Kids ==
  {[t |-> "absent", v |-> ""], [t |-> "num", v |-> ""],
   [t |-> "str", v |-> "fp1"], [t |-> "str", v |-> "fp2"]}

NoKid == [t |-> "absent", v |-> ""]

\* a claim of the payload as jwt.Parse decodes it (encoding/json into
\* interface{}): absent, bool, map, string holding a decimal number, or
\* float64 (the parser of jwt.Parse does not use json.Number); v is the
\* number in half seconds
Unread == [t |-> "unread", v |-> 0]

HalfSeconds == 0..(2 * MaxExp + 1)

ExpClaims ==
  {[t |-> k, v |-> 0] : k \in {"absent", "bool", "object"}}
    \cup {[t |-> k, v |-> h] : k \in {"string", "float64"}, h \in HalfSeconds}

\* "iat" and "nbf": absent, or a float64 of whole seconds
DateClaims ==
  {[t |-> "absent", v |-> 0]}
    \cup {[t |-> "float64", v |-> 2 * s] : s \in {1, MaxExp}}

\* int64(expClaim): the fraction is dropped
ToInt64(h) == h \div 2

\* ---- the permissions claim and the policy mapped from it

\* claims["permissions"]["publish"] / ["subscribe"]: key absent, JSON null, or
\* an object whose missing list decodes as the empty list
SubjectClaims ==
  {[t |-> k, allow |-> <<>>, deny |-> <<>>] : k \in {"absent", "null"}}
    \cup {[t |-> "object", allow |-> <<"orders.*">>, deny |-> d] :
            d \in {<<>>, <<"orders.secret">>}}

\* claims["permissions"]["responses"]: key absent, JSON null, or an object
\* whose missing number decodes as 0
ResponseClaims ==
  {[t |-> k, max |-> 0, ttl |-> 0] : k \in {"absent", "null"}}
    \cup {[t |-> "object", max |-> 5, ttl |-> l] : l \in {0, 30}}

AbsentSubject == [t |-> "absent", allow |-> <<>>, deny |-> <<>>]
AbsentResponse == [t |-> "absent", max |-> 0, ttl |-> 0]

\* claims["permissions"]: absent, a string, or a map[string]interface{}
PermissionsClaims ==
  {[t |-> k, publish |-> AbsentSubject, subscribe |-> AbsentSubject,
    responses |-> AbsentResponse] : k \in {"absent", "string"}}
    \cup {[t |-> "object", publish |-> p, subscribe |-> s, responses |-> r] :
            p \in SubjectClaims, s \in SubjectClaims, r \in ResponseClaims}

UnreadPermissions ==
  [t |-> "unread", publish |-> AbsentSubject, subscribe |-> AbsentSubject,
   responses |-> AbsentResponse]

DEFAULT_ALLOW_RESPONSE_MAX_MSGS == 1
DEFAULT_ALLOW_RESPONSE_EXPIRATION == 120

\* the map put under a missing "publish" or "subscribe" key
EmptySubject == [t |-> "object", allow |-> <<>>, deny |-> <<>>]

\* the map put under a missing "responses" key
DefaultResponses ==
  [t |-> "object", max |-> DEFAULT_ALLOW_RESPONSE_MAX_MSGS,
   ttl |-> DEFAULT_ALLOW_RESPONSE_EXPIRATION]

\* a defaulting that puts the empty map in whether or not the key is there
DefaultSubject_Overwrites(g) == EmptySubject

\* if _, ok := permissionsClaim[key]; !ok { permissionsClaim[key] = default }
DefaultSubject(g) == IF g.t = "absent" THEN EmptySubject ELSE g

DefaultResponse(g) == IF g.t = "absent" THEN DefaultResponses ELSE g

\* the groups of Permissions, *SubjectPermission and *ResponsePermission: each
\* can be nil (the type is declared outside this file)
NilSubject == [nil |-> TRUE, allow |-> <<>>, deny |-> <<>>]
NilResponse == [nil |-> TRUE, max |-> 0, ttl |-> 0]

\* permissions := &Permissions{}
NilPermissions ==
  [publish |-> NilSubject, subscribe |-> NilSubject, responses |-> NilResponse]

\* json.Marshal then json.Unmarshal of one group: an object fills the struct,
\* null (or a key that is not there) leaves the pointer nil
UnmarshalSubject(g) ==
  IF g.t = "object" THEN [nil |-> FALSE, allow |-> g.allow, deny |-> g.deny]
  ELSE NilSubject

UnmarshalResponse(g) ==
  IF g.t = "object" THEN [nil |-> FALSE, max |-> g.max, ttl |-> g.ttl]
  ELSE NilResponse

\* the permissions Check builds from a permissions claim that is a map
MapPermissions(p) ==
  [publish |-> UnmarshalSubject(DefaultSubject(p.publish)),
   subscribe |-> UnmarshalSubject(DefaultSubject(p.subscribe)),
   responses |-> UnmarshalResponse(DefaultResponse(p.responses))]

\* permissionsClaim after the three defaulting statements (the map is changed
\* in place)
DefaultPermissionsClaim(p) ==
  [p EXCEPT !.publish = DefaultSubject(@), !.subscribe = DefaultSubject(@),
            !.responses = DefaultResponse(@)]

\* a mapper that takes a missing claim for an empty one
PermissionsClaimOk_Always(p) == TRUE

\* claims["permissions"].(map[string]interface{})
PermissionsClaimOk(p) == p.t = "object"

\* ---- token verification (jwt.Parse with the key function of Check)

\* jwt.GetSigningMethod(alg) != nil
SigningMethodKnown(a) == a \in RegisteredAlgs

\* a key function that also lets the HMAC family through
IsSigningMethodRSA_OrHMAC(a) == a \in {"RS256", "HS256"}

\* _jwtToken.Method.(*jwt.SigningMethodRSA)
IsSigningMethodRSA(a) == a = "RS256"

\* _jwtToken.Header["kid"].(string)
KidIsString(k) == k.t = "str"

\* a lookup that falls back to a stored key when the kid is unknown
LookupKey_Fallback(m, f) ==
  IF f \in DOMAIN m THEN m[f] ELSE m[CHOOSE g \in DOMAIN m : TRUE]

\* bearer.jwks[*kid]: the key, or nil when the map has no such entry
LookupKey(m, f) == IF f \in DOMAIN m THEN m[f] ELSE NilKey

\* verifyExp, verifyIat, verifyNbf of the token library: a zero is "not set"
verifyExp(e, n) == e = 0 \/ n <= e
verifyIat(i, n) == i = 0 \/ n >= i
verifyNbf(b, n) == b = 0 \/ n >= b

\* MapClaims.Valid at time n: only a float64 claim is compared
ClaimsValid(tok, n) ==
  /\ tok.exp.t = "float64" => verifyExp(ToInt64(tok.exp.v), n)
  /\ tok.iat.t = "float64" => verifyIat(ToInt64(tok.iat.v), n)
  /\ tok.nbf.t = "float64" => verifyNbf(ToInt64(tok.nbf.v), n)

\* a parser that does not verify the signature
SignatureValid_Skipped(tok, key) == TRUE

\* token.Method.Verify(signingString, signature, key)
SignatureValid(tok, key) == tok.signer = key

\* ---- the expiration stage of Check

\* c.(*client) taken to succeed for every connection
IsClient_Always(k) == TRUE

\* cl, clOk := c.(*client)
IsClient(k) == k = "client"

\* a switch that also takes a string holding a number
ExpDecodes_OrString(e) == e.t \in {"float64", "json.Number", "string"}

\* the cases of switch expClaim := claims["exp"].(type) that assign exp:
\* float64 and json.Number; every other type is the default case
ExpDecodes(e) == e.t \in {"float64", "json.Number"}

\* a decoding that rounds to the nearest second
DecodeExp_Rounds(e) == (e.v + 1) \div 2

\* exp = int64(expClaim), or exp, _ = expClaim.Int64(): 0 when the number
\* has a fraction
DecodeExp(e) ==
  IF e.t = "json.Number" /\ e.v % 2 = 1 THEN 0 ELSE ToInt64(e.v)

\* a comparison that is never true
Expired_Never(n, e) == FALSE

\* a comparison that lets exp = now through
Expired_Strict(n, e) == n > e

\* if now >= exp { return false }
Expired(n, e) == n >= e

\* ---- the API error catalogue

MaxIds == 3

JSNotEnabledForAccountErr == 10039

JSClusterNotActiveErr == 10006

\* the identifiers ApiErrors has an entry for
KnownIds == {JSNotEnabledForAccountErr, JSClusterNotActiveErr}

\* identifiers ApiErrors has no entry for
UnknownIds == {1, 2}

ErrorIdentifiers == KnownIds \cup UnknownIds

\* ApiErrors[id]: the catalogue's instance, its description still a template
ApiErrors ==
  [id \in KnownIds |->
     [t |-> "api", ErrCode |-> id, Description |-> "template",
      instance |-> "catalogue"]]

\* a nil error
NilError ==
  [t |-> "nil", ErrCode |-> 0, Description |-> "", instance |-> ""]

\* errors.New("x")
OtherError ==
  [t |-> "other", ErrCode |-> 0, Description |-> "x", instance |-> ""]

\* &ApiError{ErrCode: code}
LiteralError(code) ==
  [t |-> "api", ErrCode |-> code, Description |-> "", instance |-> "literal"]

Errors ==
  {NilError, OtherError} \cup {ApiErrors[id] : id \in KnownIds}
    \cup {LiteralError(code) : code \in ErrorIdentifiers}

BoundedSeq(S, n) == UNION {[1..m -> S] : m \in 0..n}

IsNatsErr_CodeIsId(err, ids) ==
  /\ err.t = "api"
  /\ \E i \in DOMAIN ids : ids[i] = err.ErrCode

\* the loop over ids: an identifier without a catalogue entry is skipped
RECURSIVE IsNatsErrFrom(_, _, _)
IsNatsErrFrom(ce, ids, i) ==
  IF i > Len(ids)
    THEN FALSE
    ELSE IF ids[i] \notin DOMAIN ApiErrors
      THEN IsNatsErrFrom(ce, ids, i + 1)
      ELSE IF ce.ErrCode = ApiErrors[ids[i]].ErrCode
        THEN TRUE
        ELSE IsNatsErrFrom(ce, ids, i + 1)

IsNatsErr(err, ids) ==
  IF err.t # "api" THEN FALSE ELSE IsNatsErrFrom(err, ids, 1)

\* e.NewT(replacements...): a new instance, the template filled in
NewT(e) == [e EXCEPT !.Description = "filled", !.instance = "new"]

ErrOr_Receiver(e, err) == e

\* e.ErrOr(err)
ErrOr(e, err) == IF err.t = "api" THEN err ELSE e

\* e.ErrOrNewT(err, replacements...)
ErrOrNewT(e, err) == IF err.t = "api" THEN err ELSE NewT(e)

NoOutput == [match |-> FALSE, err |-> NilError]

\* ---- construction

EnvValues == {"absent", "garbage", "pem"}

\* jwt.ParseRSAPublicKeyFromPEM: the key, or NilKey with an error
ParseRSAPublicKeyFromPEM(e) == IF e = "pem" THEN ConfiguredKey ELSE NilKey

\* make(map[string]*rsa.PublicKey)
EmptyJwks == [f \in {} |-> NilKey]

FactoryResult_IgnoresError(failed) == "ok"

\* bearerAuthFactory returns nil and the error when readPublicKey failed
FactoryResult(failed) == IF failed THEN "error" ELSE "ok"

\* ---- state

VARIABLES
  now,          \* time.Now().Unix()
  jwks,         \* bearer.jwks
  crashed,      \* a panic ended the process
  pc,           \* where Check is on each connection
  kind,         \* whether the connection is a *client
  token,        \* c.GetOpts().JWT, decoded
  publicKey,    \* the key the key function returned
  libNow,       \* the time MapClaims.Valid read
  nowRead,      \* the time Check read
  permissions,  \* the local permissions
  user,         \* the user registered on the connection
  expires,      \* the expiration set on the connection, 0 when none
  result,       \* what Check returned
  site,         \* the line Check returned at
  calls,        \* the calls Check made on the connection, in order
  keyReads,     \* the fingerprints looked up in bearer.jwks
  env,          \* os.Getenv("JWT_SIGNER_PUBLIC_KEY")
  sshFails,     \* whether ssh.NewPublicKey returns an error for the key
  auth,         \* what bearerAuthFactory returned
  warned,       \* readPublicKey logged a warning
  apiOp,        \* the error-catalogue function called last
  apiErr,       \* the err it was given
  apiIds,       \* the identifiers IsNatsErr was given
  apiRecv,      \* the identifier of the receiver of ErrOr / ErrOrNewT
  apiOut        \* what it returned

bootVars == <<env, sshFails, auth, warned>>

catalogVars == <<apiOp, apiErr, apiIds, apiRecv, apiOut>>

vars ==
  <<now, jwks, crashed, pc, kind, token, publicKey, libNow, nowRead,
    permissions, user, expires, result, site, calls, keyReads, bootVars,
    catalogVars>>

attemptVars ==
  <<publicKey, libNow, nowRead, permissions, result, site, calls, keyReads>>

NoUser == [registered |-> FALSE, Permissions |-> NilPermissions]

NoToken ==
  [alg |-> "RS256", kid |-> NoKid, signer |-> ConfiguredKey, exp |-> Unread,
   iat |-> Unread, nbf |-> Unread, permissions |-> UnreadPermissions]

\* no attempt has started on any connection
InitAttempts ==
  /\ pc = [c \in Conns |-> "idle"]
  /\ kind = [c \in Conns |-> "client"]
  /\ token = [c \in Conns |-> NoToken]
  /\ publicKey = [c \in Conns |-> NilKey]
  /\ libNow = [c \in Conns |-> 0]
  /\ nowRead = [c \in Conns |-> 0]
  /\ permissions = [c \in Conns |-> NilPermissions]
  /\ user = [c \in Conns |-> NoUser]
  /\ expires = [c \in Conns |-> 0]
  /\ result = [c \in Conns |-> "none"]
  /\ site = [c \in Conns |-> 0]
  /\ calls = [c \in Conns |-> <<>>]
  /\ keyReads = [c \in Conns |-> {}]

InitCatalog ==
  /\ apiOp = "none"
  /\ apiErr = NilError
  /\ apiIds = <<>>
  /\ apiRecv = JSClusterNotActiveErr
  /\ apiOut = NoOutput

\* bearerAuthFactory has returned the authenticator: readPublicKey stored the
\* configured key under its fingerprint
Init ==
  /\ now = 1
  /\ jwks = [f \in {FingerprintLegacyMD5(ConfiguredKey)} |-> ConfiguredKey]
  /\ crashed = FALSE
  /\ env = "pem"
  /\ sshFails = FALSE
  /\ auth = "ok"
  /\ warned = FALSE
  /\ InitCatalog
  /\ InitAttempts

\* return v, at line l
Return(c, v, l) ==
  /\ pc' = [pc EXCEPT ![c] = "done"]
  /\ result' = [result EXCEPT ![c] = v]
  /\ site' = [site EXCEPT ![c] = l]

Goto(c, l) ==
  /\ pc' = [pc EXCEPT ![c] = l]
  /\ UNCHANGED <<result, site>>

\* the clock moves on
Tick ==
  /\ ~crashed
  /\ UNCHANGED <<bootVars, catalogVars>>
  /\ now < MaxClock
  /\ now' = now + 1
  /\ UNCHANGED <<jwks, crashed, pc, kind, token, user, expires, attemptVars>>

\* a connection presents a token: Check(c) is entered, bearerToken is read
Check(c) ==
  /\ ~crashed
  /\ UNCHANGED <<bootVars, catalogVars>>
  /\ pc[c] = "idle"
  /\ auth = "ok"
  /\ \E k \in ConnKinds, a \in Algs, i \in Kids, s \in Keys :
       /\ kind' = [kind EXCEPT ![c] = k]
       /\ token' = [token EXCEPT ![c] =
                      [NoToken EXCEPT !.alg = a, !.kid = i, !.signer = s]]
  /\ Goto(c, "parse")
  /\ UNCHANGED <<now, jwks, crashed, user, expires, publicKey, libNow,
                 nowRead, permissions, calls, keyReads>>

\* jwt.Parse up to the call of the key function: an unknown alg is an error
ParseUnverified(c) ==
  /\ ~crashed
  /\ UNCHANGED <<bootVars, catalogVars>>
  /\ pc[c] = "parse"
  /\ IF SigningMethodKnown(token[c].alg)
       THEN Goto(c, "keyfunc")
       ELSE Return(c, "false", 78)
  /\ UNCHANGED <<now, jwks, crashed, kind, token, user, expires, publicKey,
                 libNow, nowRead, permissions, calls, keyReads>>

\* a key function that stores the signer's key under a kid it does not know
KeyFunc_Caching(c) ==
  /\ ~crashed
  /\ UNCHANGED <<bootVars, catalogVars>>
  /\ pc[c] = "keyfunc"
  /\ IF ~IsSigningMethodRSA(token[c].alg)
       THEN /\ Return(c, "false", 78)
            /\ UNCHANGED <<publicKey, keyReads, crashed, jwks>>
       ELSE IF ~KidIsString(token[c].kid)
         THEN /\ pc' = [pc EXCEPT ![c] = "panic"]
              /\ crashed' = TRUE
              /\ UNCHANGED <<result, site, publicKey, keyReads, jwks>>
         ELSE /\ keyReads' = [keyReads EXCEPT ![c] = @ \cup {token[c].kid.v}]
              /\ publicKey' =
                   [publicKey EXCEPT ![c] = LookupKey(jwks, token[c].kid.v)]
              /\ UNCHANGED crashed
              /\ IF LookupKey(jwks, token[c].kid.v) = NilKey
                   THEN /\ Return(c, "false", 78)
                        /\ jwks' =
                             [f \in DOMAIN jwks \cup {token[c].kid.v} |->
                                IF f \in DOMAIN jwks THEN jwks[f]
                                                     ELSE token[c].signer]
                   ELSE /\ Goto(c, "verify")
                        /\ UNCHANGED jwks
  /\ UNCHANGED <<now, kind, token, user, expires, libNow, nowRead,
                 permissions, calls>>

\* the key function: the signing method, then the kid, then the key
KeyFunc(c) ==
  /\ ~crashed
  /\ UNCHANGED <<bootVars, catalogVars>>
  /\ pc[c] = "keyfunc"
  /\ IF ~IsSigningMethodRSA(token[c].alg)
       THEN /\ Return(c, "false", 78)
            /\ UNCHANGED <<publicKey, keyReads, crashed>>
       ELSE IF ~KidIsString(token[c].kid)
         \* publicKey == nil and kid == nil: *kid panics
         THEN /\ pc' = [pc EXCEPT ![c] = "panic"]
              /\ crashed' = TRUE
              /\ UNCHANGED <<result, site, publicKey, keyReads>>
         ELSE /\ keyReads' = [keyReads EXCEPT ![c] = @ \cup {token[c].kid.v}]
              /\ publicKey' =
                   [publicKey EXCEPT ![c] = LookupKey(jwks, token[c].kid.v)]
              /\ UNCHANGED crashed
              /\ IF LookupKey(jwks, token[c].kid.v) = NilKey
                   THEN Return(c, "false", 78)
                   ELSE Goto(c, "verify")
  /\ UNCHANGED <<now, jwks, kind, token, user, expires, libNow, nowRead,
                 permissions, calls>>

\* the rest of jwt.Parse: the claims are validated at the current time and the
\* signature is verified with the key; any error makes Check return false
VerifyToken(c) ==
  /\ ~crashed
  /\ UNCHANGED <<bootVars, catalogVars>>
  /\ pc[c] = "verify"
  /\ \E e \in ExpClaims, i \in DateClaims, b \in DateClaims :
       LET tok == [token[c] EXCEPT !.exp = e, !.iat = i, !.nbf = b] IN
         /\ token' = [token EXCEPT ![c] = tok]
         /\ libNow' = [libNow EXCEPT ![c] = now]
         /\ IF ClaimsValid(tok, now) /\ SignatureValid(tok, publicKey[c])
              THEN Goto(c, "map")
              ELSE Return(c, "false", 78)
  /\ UNCHANGED <<now, jwks, crashed, kind, user, expires, publicKey, nowRead,
                 permissions, calls, keyReads>>

\* the permissions claim is read and mapped, or Check returns false
ReadPermissions(c) ==
  /\ ~crashed
  /\ UNCHANGED <<bootVars, catalogVars>>
  /\ pc[c] = "map"
  /\ \E p \in PermissionsClaims :
       /\ token' = [token EXCEPT ![c].permissions = p]
       /\ IF PermissionsClaimOk(p)
            THEN /\ permissions' = [permissions EXCEPT ![c] = MapPermissions(p)]
                 /\ Goto(c, "register")
            ELSE /\ UNCHANGED permissions
                 /\ Return(c, "false", 112)
  /\ UNCHANGED <<now, jwks, crashed, kind, user, expires, publicKey, libNow,
                 nowRead, calls, keyReads>>

\* a registration that reaches every connection
RegisterUser_Shared(c) ==
  /\ ~crashed
  /\ UNCHANGED <<bootVars, catalogVars>>
  /\ pc[c] = "register"
  /\ user' = [d \in Conns |->
                [registered |-> TRUE, Permissions |-> permissions[c]]]
  /\ calls' = [calls EXCEPT ![c] = Append(@, "RegisterUser")]
  /\ Goto(c, "expire")
  /\ UNCHANGED <<now, jwks, crashed, kind, token, expires, publicKey, libNow,
                 nowRead, permissions, keyReads>>

\* c.RegisterUser(&User{Permissions: permissions})
RegisterUser(c) ==
  /\ ~crashed
  /\ UNCHANGED <<bootVars, catalogVars>>
  /\ pc[c] = "register"
  /\ user' = [user EXCEPT ![c] =
                [registered |-> TRUE, Permissions |-> permissions[c]]]
  /\ calls' = [calls EXCEPT ![c] = Append(@, "RegisterUser")]
  /\ Goto(c, "expire")
  /\ UNCHANGED <<now, jwks, crashed, kind, token, expires, publicKey, libNow,
                 nowRead, permissions, keyReads>>

\* an expiration stage that sets the expiration before it compares it
EnforceExpiration_SetsFirst(c) ==
  /\ ~crashed
  /\ UNCHANGED <<bootVars, catalogVars>>
  /\ pc[c] = "expire"
  /\ IF ~IsClient(kind[c])
       THEN /\ Return(c, "true", 142)
            /\ UNCHANGED <<nowRead, expires, calls>>
       ELSE IF ~ExpDecodes(token[c].exp)
         THEN /\ Return(c, "false", 129)
              /\ UNCHANGED <<nowRead, expires, calls>>
         ELSE /\ nowRead' = [nowRead EXCEPT ![c] = now]
              /\ expires' = [expires EXCEPT ![c] = DecodeExp(token[c].exp)]
              /\ calls' = [calls EXCEPT ![c] = Append(@, "setExpiration")]
              /\ IF Expired(now, DecodeExp(token[c].exp))
                   THEN Return(c, "false", 134)
                   ELSE Return(c, "true", 142)
  /\ UNCHANGED <<now, jwks, crashed, kind, token, user, publicKey, libNow,
                 permissions, keyReads>>

\* if cl, clOk := c.(*client); clOk { ... }; return true
EnforceExpiration(c) ==
  /\ ~crashed
  /\ UNCHANGED <<bootVars, catalogVars>>
  /\ pc[c] = "expire"
  /\ IF ~IsClient(kind[c])
       THEN /\ Return(c, "true", 142)
            /\ UNCHANGED <<nowRead, expires, calls>>
       ELSE IF ~ExpDecodes(token[c].exp)
         THEN /\ Return(c, "false", 129)
              /\ UNCHANGED <<nowRead, expires, calls>>
         ELSE /\ nowRead' = [nowRead EXCEPT ![c] = now]
              /\ IF Expired(now, DecodeExp(token[c].exp))
                   THEN /\ Return(c, "false", 134)
                        /\ UNCHANGED <<expires, calls>>
                   ELSE /\ expires' =
                             [expires EXCEPT ![c] = DecodeExp(token[c].exp)]
                        /\ calls' =
                             [calls EXCEPT ![c] = Append(@, "setExpiration")]
                        /\ Return(c, "true", 142)
  /\ UNCHANGED <<now, jwks, crashed, kind, token, user, publicKey, libNow,
                 permissions, keyReads>>

\* the connection is closed; its slot serves a new connection
Close(c) ==
  /\ ~crashed
  /\ UNCHANGED <<bootVars, catalogVars>>
  /\ pc[c] = "done"
  /\ pc' = [pc EXCEPT ![c] = "idle"]
  /\ kind' = [kind EXCEPT ![c] = "client"]
  /\ token' = [token EXCEPT ![c] = NoToken]
  /\ publicKey' = [publicKey EXCEPT ![c] = NilKey]
  /\ libNow' = [libNow EXCEPT ![c] = 0]
  /\ nowRead' = [nowRead EXCEPT ![c] = 0]
  /\ permissions' = [permissions EXCEPT ![c] = NilPermissions]
  /\ user' = [user EXCEPT ![c] = NoUser]
  /\ expires' = [expires EXCEPT ![c] = 0]
  /\ result' = [result EXCEPT ![c] = "none"]
  /\ site' = [site EXCEPT ![c] = 0]
  /\ calls' = [calls EXCEPT ![c] = <<>>]
  /\ keyReads' = [keyReads EXCEPT ![c] = {}]
  /\ UNCHANGED <<now, jwks, crashed>>

\* no attempt is in progress and no finished connection is still open
AllIdle == \A d \in Conns : pc[d] = "idle"

\* one attempt at a time
Next ==
  \/ Tick
  \/ \E c \in Conns : AllIdle /\ Check(c)
  \/ \E c \in Conns : ParseUnverified(c)
  \/ \E c \in Conns : KeyFunc(c)
  \/ \E c \in Conns : VerifyToken(c)
  \/ \E c \in Conns : ReadPermissions(c)
  \/ \E c \in Conns : RegisterUser(c)
  \/ \E c \in Conns : EnforceExpiration(c)
  \/ \E c \in Conns : Close(c)

Spec == Init /\ [][Next]_vars

\* ---- construction of the authenticator

\* bearerAuthFactory, with readPublicKey: the key is parsed, its fingerprint
\* computed and the key stored under it. A parse error is returned to the
\* caller; an error of ssh.NewPublicKey is only logged, and the fingerprint is
\* then taken of the nil key it returned, which panics
Factory ==
  /\ ~crashed
  /\ auth = "none"
  /\ LET publicKey0 == ParseRSAPublicKeyFromPEM(env) IN
       IF publicKey0 = NilKey
         THEN /\ auth' = FactoryResult(TRUE)
              /\ UNCHANGED <<jwks, warned, crashed>>
         ELSE IF sshFails
           THEN /\ warned' = TRUE
                /\ crashed' = TRUE
                /\ UNCHANGED <<jwks, auth>>
           ELSE /\ jwks' = [f \in {FingerprintLegacyMD5(publicKey0)} |->
                              publicKey0]
                /\ auth' = FactoryResult(FALSE)
                /\ UNCHANGED <<warned, crashed>>
  /\ UNCHANGED <<now, env, sshFails, pc, kind, token, user, expires,
                 attemptVars, catalogVars>>

\* the process starts: the environment is what it is, nothing is constructed
InitBoot ==
  /\ now = 1
  /\ jwks = EmptyJwks
  /\ crashed = FALSE
  /\ env \in EnvValues
  /\ sshFails \in BOOLEAN
  /\ auth = "none"
  /\ warned = FALSE
  /\ InitCatalog
  /\ InitAttempts

NextBoot ==
  \/ Factory
  \/ Tick
  \/ \E c \in Conns : AllIdle /\ Check(c)
  \/ \E c \in Conns : ParseUnverified(c)
  \/ \E c \in Conns : KeyFunc(c)
  \/ \E c \in Conns : VerifyToken(c)
  \/ \E c \in Conns : ReadPermissions(c)
  \/ \E c \in Conns : RegisterUser(c)
  \/ \E c \in Conns : EnforceExpiration(c)
  \/ \E c \in Conns : Close(c)

SpecBoot == InitBoot /\ [][NextBoot]_vars

\* ---- attempts on several connections at once

\* the attempts that are interleaved: on a *client, with a signing method of
\* the RSA family or not, a kid the store knows or not, an exp at the last second
\* of the clock, no permissions or one of two permission objects
ConcExp == {[t |-> "float64", v |-> 2 * MaxClock]}

ConcPermissions ==
  {[t |-> "absent", publish |-> AbsentSubject, subscribe |-> AbsentSubject,
    responses |-> AbsentResponse],
   [t |-> "object", publish |-> AbsentSubject, subscribe |-> AbsentSubject,
    responses |-> AbsentResponse],
   [t |-> "object",
    publish |-> [t |-> "object", allow |-> <<"orders.*">>,
                 deny |-> <<"orders.secret">>],
    subscribe |-> AbsentSubject, responses |-> AbsentResponse]}

ConcTokens ==
  \A c \in Conns :
    /\ kind[c] = "client"
    /\ token[c].alg \in {"RS256", "HS256"}
    /\ token[c].kid \in {NoKid, [t |-> "str", v |-> "fp1"],
                         [t |-> "str", v |-> "fp2"]}
    /\ token[c].kid = NoKid => pc[c] = "idle"
    /\ token[c].signer = ConfiguredKey
    /\ token[c].exp \in ConcExp \cup {Unread}
    /\ token[c].iat \in {Unread, [t |-> "absent", v |-> 0]}
    /\ token[c].nbf \in {Unread, [t |-> "absent", v |-> 0]}
    /\ token[c].permissions \in ConcPermissions \cup {UnreadPermissions}

\* Check run from its first statement to its return with nothing else running:
\* what it returns, at which line, the user it registers and the expiration it
\* sets, for the token tok on a connection of kind k, with the store m, the
\* time n1 read by the token library and the time n2 read by Check
Denied(l, u) == [result |-> "false", site |-> l, user |-> u, expires |-> 0]

CheckAlone(tok, k, m, n1, n2) ==
  IF ~SigningMethodKnown(tok.alg) \/ ~IsSigningMethodRSA(tok.alg)
    THEN Denied(78, NoUser)
  ELSE IF LookupKey(m, tok.kid.v) = NilKey
    THEN Denied(78, NoUser)
  ELSE IF ~(ClaimsValid(tok, n1)
              /\ SignatureValid(tok, LookupKey(m, tok.kid.v)))
    THEN Denied(78, NoUser)
  ELSE IF ~PermissionsClaimOk(tok.permissions)
    THEN Denied(112, NoUser)
  ELSE LET u == [registered |-> TRUE,
                 Permissions |-> MapPermissions(tok.permissions)] IN
    IF ~IsClient(k)
      THEN [result |-> "true", site |-> 142, user |-> u, expires |-> 0]
    ELSE IF ~ExpDecodes(tok.exp)
      THEN Denied(129, u)
    ELSE IF Expired(n2, DecodeExp(tok.exp))
      THEN Denied(134, u)
    ELSE [result |-> "true", site |-> 142, user |-> u,
          expires |-> DecodeExp(tok.exp)]

\* every connection handler runs its attempt at its own pace
NextConc ==
  \/ Tick
  \/ \E c \in Conns : Check(c) /\ ConcTokens'
  \/ \E c \in Conns : ParseUnverified(c)
  \/ \E c \in Conns : KeyFunc(c)
  \/ \E c \in Conns : VerifyToken(c) /\ ConcTokens'
  \/ \E c \in Conns : ReadPermissions(c) /\ ConcTokens'
  \/ \E c \in Conns : RegisterUser(c)
  \/ \E c \in Conns : EnforceExpiration(c)
  \/ \E c \in Conns : Close(c)

SpecConc == Init /\ [][NextConc]_vars

\* ---- calls into the API error catalogue

bearerVars ==
  <<now, jwks, crashed, pc, kind, token, user, expires, attemptVars, bootVars>>

\* IsNatsErr(err, ids...)
CallIsNatsErr ==
  /\ apiOp = "none"
  /\ \E e \in Errors, ids \in BoundedSeq(ErrorIdentifiers, MaxIds) :
       /\ apiOp' = "IsNatsErr"
       /\ apiErr' = e
       /\ apiIds' = ids
       /\ apiOut' = [match |-> IsNatsErr(e, ids), err |-> NilError]
  /\ UNCHANGED <<apiRecv, bearerVars>>

\* ApiErrors[id].ErrOr(err)
CallErrOr ==
  /\ apiOp = "none"
  /\ \E id \in KnownIds, e \in Errors :
       /\ apiOp' = "ErrOr"
       /\ apiRecv' = id
       /\ apiErr' = e
       /\ apiOut' = [match |-> FALSE, err |-> ErrOr(ApiErrors[id], e)]
  /\ UNCHANGED <<apiIds, bearerVars>>

\* ApiErrors[id].ErrOrNewT(err, replacements...)
CallErrOrNewT ==
  /\ apiOp = "none"
  /\ \E id \in KnownIds, e \in Errors :
       /\ apiOp' = "ErrOrNewT"
       /\ apiRecv' = id
       /\ apiErr' = e
       /\ apiOut' = [match |-> FALSE, err |-> ErrOrNewT(ApiErrors[id], e)]
  /\ UNCHANGED <<apiIds, bearerVars>>

\* the caller is done with the result
Forget ==
  /\ apiOp # "none"
  /\ apiOp' = "none"
  /\ apiErr' = NilError
  /\ apiIds' = <<>>
  /\ apiRecv' = JSClusterNotActiveErr
  /\ apiOut' = NoOutput
  /\ UNCHANGED bearerVars

NextErr ==
  \/ CallIsNatsErr
  \/ CallErrOr
  \/ CallErrOrNewT
  \/ Forget

SpecErr == Init /\ [][NextErr]_vars

TypeOK ==
  /\ now \in 1..MaxClock
  /\ crashed \in BOOLEAN
  /\ env \in EnvValues
  /\ sshFails \in BOOLEAN
  /\ auth \in {"none", "ok", "error"}
  /\ warned \in BOOLEAN
  /\ apiOp \in {"none", "IsNatsErr", "ErrOr", "ErrOrNewT"}
  /\ apiErr \in Errors
  /\ apiIds \in BoundedSeq(ErrorIdentifiers, MaxIds)
  /\ apiRecv \in KnownIds
  /\ \A c \in Conns :
       /\ pc[c] \in {"idle", "parse", "keyfunc", "verify", "map", "register",
                     "expire", "done", "panic"}
       /\ kind[c] \in ConnKinds
       /\ result[c] \in {"none", "true", "false"}
       /\ site[c] \in {0, 78, 112, 129, 134, 142}

\* ---- properties

Count(q, x) == Cardinality({i \in DOMAIN q : q[i] = x})

Finished(c) == pc[c] = "done"

\* the header names a stored key, that key made the signature, and the
\* signing method is the one the key function takes
HeaderVerifies(c) ==
  /\ token[c].alg = "RS256"
  /\ token[c].kid.t = "str"
  /\ token[c].kid.v \in DOMAIN jwks
  /\ token[c].signer = jwks[token[c].kid.v]

\* iat and nbf, where the token has them, are not later than the time of
\* validation (a claim the attempt has not read constrains nothing)
DatesPassed(c) ==
  \A d \in {token[c].iat, token[c].nbf} :
    d.t = "float64" => ToInt64(d.v) <= libNow[c]

\* exp is a number whose whole seconds lie after every time the attempt read
ExpAhead(c) ==
  token[c].exp.t # "unread" =>
    /\ token[c].exp.t = "float64"
    /\ ToInt64(token[c].exp.v) > libNow[c]
    /\ ToInt64(token[c].exp.v) > nowRead[c]

PermissionsIsObject(c) ==
  token[c].permissions.t # "unread" => token[c].permissions.t = "object"

\* C1: a denial at the expiration stage of a real connection (exp at or before
\* now) leaves the connection without an identity: RegisterUser was not called.
C1_NoIdentityOnExpiredDenial ==
  \A c \in Conns :
    (Finished(c) /\ kind[c] = "client" /\ site[c] = 134) =>
      (~user[c].registered /\ Count(calls[c], "RegisterUser") = 0)

\* C2 as stated: a token signed by the key stored under its kid, with an RSA
\* method, a permissions claim and an expiration strictly after now, is
\* admitted on a real connection, with one identity and exp as the deadline.
C2_AdmitsEveryFutureExp ==
  \A c \in Conns :
    ( /\ Finished(c) /\ kind[c] = "client"
      /\ HeaderVerifies(c)
      /\ token[c].permissions.t = "object"
      /\ token[c].exp.t = "float64"
      /\ nowRead[c] >= 1
      /\ token[c].exp.v > 2 * nowRead[c] ) =>
      ( /\ result[c] = "true"
        /\ Count(calls[c], "RegisterUser") = 1
        /\ expires[c] = ToInt64(token[c].exp.v) )

\* C2 amended: a token signed by the key stored under its kid, with an RS*
\* method, no iat or nbf later than the time of validation, a permissions claim
\* that is an object and a numeric exp whose whole seconds are strictly after
\* now, is admitted on a real connection: Check returns true, RegisterUser is
\* called exactly once and the whole seconds of exp become the deadline.
C2_AdmitsValidToken ==
  \A c \in Conns :
    ( /\ pc[c] \in {"done", "panic"} /\ kind[c] = "client"
      /\ HeaderVerifies(c) /\ DatesPassed(c) /\ ExpAhead(c)
      /\ PermissionsIsObject(c) ) =>
      ( /\ Finished(c) /\ result[c] = "true" /\ site[c] = 142
        /\ calls[c] = <<"RegisterUser", "setExpiration">>
        /\ Count(calls[c], "RegisterUser") = 1
        /\ user[c].registered
        /\ expires[c] = ToInt64(token[c].exp.v)
        /\ expires[c] > nowRead[c] )

\* a token with none of the three groups and a fraction in exp is admitted
C2_Witness ==
  \E c \in Conns :
    /\ Finished(c) /\ kind[c] = "client" /\ result[c] = "true"
    /\ HeaderVerifies(c) /\ DatesPassed(c) /\ ExpAhead(c)
    /\ token[c].nbf.t = "float64"
    /\ token[c].permissions.t = "object"
    /\ token[c].permissions.publish.t = "absent"
    /\ token[c].permissions.subscribe.t = "absent"
    /\ token[c].permissions.responses.t = "absent"
    /\ token[c].exp.v % 2 = 1
    /\ expires[c] = ToInt64(token[c].exp.v)

\* C3: every registered identity has a policy whose three groups are all
\* present, whatever the shape of the permissions claim.
C3_PolicyFullyPopulated ==
  \A c \in Conns :
    user[c].registered =>
      /\ ~user[c].Permissions.publish.nil
      /\ ~user[c].Permissions.subscribe.nil
      /\ ~user[c].Permissions.responses.nil

\* C4: on a real connection Check returns true only when the time it read is
\* strictly before exp; a token whose exp is at or before that time is denied,
\* also after verification and mapping succeeded.
C4_ExpiredNeverAdmitted ==
  \A c \in Conns :
    (Finished(c) /\ kind[c] = "client" /\ result[c] = "true") =>
      (nowRead[c] >= 1 /\ token[c].exp.v > 2 * nowRead[c])

\* verified, mapped, exp at or before the time read: denied
C4_Witness ==
  \E c \in Conns :
    /\ Finished(c) /\ kind[c] = "client" /\ result[c] = "false"
    /\ HeaderVerifies(c) /\ token[c].permissions.t = "object"
    /\ token[c].exp.t = "float64" /\ nowRead[c] >= 1
    /\ token[c].exp.v = 2 * nowRead[c]

\* C5: a token whose signing method is not RSA is denied before any key
\* lookup: bearer.jwks is never read in the attempt, the attempt does not go
\* past the key function, and the kid (absent or not) plays no part.
C5_BadAlgBeforeLookup ==
  \A c \in Conns :
    (pc[c] # "idle" /\ token[c].alg # "RS256") =>
      /\ pc[c] \in {"parse", "keyfunc", "done"}
      /\ keyReads[c] = {}
      /\ publicKey[c] = NilKey
      /\ calls[c] = <<>>
      /\ Finished(c) => (result[c] = "false" /\ site[c] = 78)

\* an HMAC token naming the stored key is denied with no lookup made
C5_Witness ==
  \E c \in Conns :
    /\ Finished(c) /\ token[c].alg = "HS256"
    /\ token[c].kid = [t |-> "str", v |-> "fp1"]
    /\ result[c] = "false" /\ keyReads[c] = {}

\* C6: a token whose kid is not a key of bearer.jwks is denied, whoever signed
\* it; the only entry the verifier ever looks up or uses is the one under kid.
C6_UnknownKidDenied ==
  \A c \in Conns :
    /\ (pc[c] # "idle" /\ token[c].kid.t = "str"
          /\ token[c].kid.v \notin DOMAIN jwks) =>
         /\ pc[c] \in {"parse", "keyfunc", "done"}
         /\ publicKey[c] = NilKey
         /\ calls[c] = <<>>
         /\ Finished(c) => (result[c] = "false" /\ site[c] = 78)
    /\ keyReads[c] \subseteq {token[c].kid.v}
    /\ publicKey[c] # NilKey =>
         (token[c].kid.t = "str" /\ token[c].kid.v \in DOMAIN jwks
            /\ publicKey[c] = jwks[token[c].kid.v])

\* signed by the stored key, but under a kid that is not stored: denied
C6_Witness ==
  \E c \in Conns :
    /\ Finished(c) /\ token[c].alg = "RS256"
    /\ token[c].kid = [t |-> "str", v |-> "fp2"]
    /\ token[c].signer = ConfiguredKey
    /\ keyReads[c] = {"fp2"}
    /\ result[c] = "false"

\* C7: an RSA token whose header has no kid, or a kid that is not a string, is
\* an ordinary denial: Check does not panic and returns false.
C7_MissingKidIsDenied ==
  \A c \in Conns :
    (token[c].alg = "RS256" /\ token[c].kid.t # "str") =>
      /\ pc[c] # "panic"
      /\ ~crashed
      /\ Finished(c) => result[c] = "false"

\* C8: a verified token whose permissions claim is missing or is not an object
\* is denied, and neither RegisterUser nor setExpiration is called.
C8_NoPermissionsDenied ==
  \A c \in Conns :
    token[c].permissions.t \in {"absent", "string"} =>
      /\ Finished(c) /\ result[c] = "false" /\ site[c] = 112
      /\ calls[c] = <<>>
      /\ ~user[c].registered
      /\ expires[c] = 0

\* the signature verified and the claims were valid, the permissions are absent
C8_Witness ==
  \E c \in Conns :
    /\ Finished(c) /\ HeaderVerifies(c) /\ publicKey[c] = ConfiguredKey
    /\ token[c].exp.t = "float64"
    /\ token[c].exp.v > 2 * now
    /\ token[c].permissions.t = "absent"
    /\ result[c] = "false"

\* C9 as stated: an exp given as a decimal string is decoded like the same
\* number: when its value is still ahead of the clock the attempt is admitted.
C9_StringExpAccepted ==
  \A c \in Conns :
    ( /\ Finished(c) /\ kind[c] = "client" /\ user[c].registered
      /\ token[c].exp.t = "string"
      /\ ToInt64(token[c].exp.v) > now ) =>
      result[c] = "true"

\* C9 amended: at the expiration stage of a real connection an exp that is a
\* JSON number is decoded, to its whole seconds, and admits exactly when that
\* is after the time read; every other encoding (a decimal string, a boolean,
\* an object) and a missing exp is denied and sets no deadline.
C9_OnlyNumbersDecode ==
  \A c \in Conns :
    (Finished(c) /\ kind[c] = "client" /\ user[c].registered) =>
      /\ token[c].exp.t # "float64" =>
           (result[c] = "false" /\ site[c] = 129 /\ expires[c] = 0)
      /\ token[c].exp.t = "float64" =>
           /\ nowRead[c] >= 1
           /\ result[c] = "true" <=> ToInt64(token[c].exp.v) > nowRead[c]
           /\ result[c] = "true" => expires[c] = ToInt64(token[c].exp.v)

\* a string whose number is ahead of the clock is denied, and so is a boolean
C9_Witness ==
  /\ \E c \in Conns :
       /\ Finished(c) /\ kind[c] = "client" /\ user[c].registered
       /\ token[c].exp.t = "string" /\ ToInt64(token[c].exp.v) > now
       /\ result[c] = "false" /\ site[c] = 129

\* C10: once verification and mapping have succeeded Check registers an
\* identity with the mapped policy on any connection; on a connection that is
\* not a *client no time is read, no deadline is set and Check returns true,
\* also when exp is missing or is not a number.
C10_OtherConnectionAdmitted ==
  \A c \in Conns :
    /\ (pc[c] = "expire" \/ (Finished(c) /\ site[c] \notin {78, 112})) =>
         /\ user[c].registered
         /\ user[c].Permissions = permissions[c]
         /\ Count(calls[c], "RegisterUser") = 1
         /\ user[c].Permissions = MapPermissions(token[c].permissions)
    /\ (Finished(c) /\ kind[c] = "other" /\ site[c] \notin {78, 112}) =>
         /\ result[c] = "true"
         /\ expires[c] = 0
         /\ nowRead[c] = 0
         /\ calls[c] = <<"RegisterUser">>

\* a connection that is not a *client is admitted with no exp in the token
C10_Witness ==
  \E c \in Conns :
    /\ Finished(c) /\ kind[c] = "other" /\ result[c] = "true"
    /\ token[c].exp.t \in {"absent", "string", "bool"}
    /\ user[c].registered /\ expires[c] = 0

\* C12: within an attempt RegisterUser is called only when the signature was
\* verified, the claims validated and the permissions claim mapped, and
\* setExpiration only when RegisterUser was called before it; the permissions
\* claim is read only after verification.
C12_StagesInOrder ==
  [][\A c \in Conns :
       /\ Count(calls'[c], "RegisterUser") > Count(calls[c], "RegisterUser") =>
            /\ calls[c] = <<>>
            /\ publicKey[c] # NilKey
            /\ token[c].signer = publicKey[c]
            /\ libNow[c] >= 1
            /\ token[c].permissions.t = "object"
            /\ permissions[c] = MapPermissions(token[c].permissions)
       /\ Count(calls'[c], "setExpiration") > Count(calls[c], "setExpiration") =>
            /\ calls[c] = <<"RegisterUser">>
            /\ user[c].registered
       /\ (token[c].permissions.t = "unread"
             /\ token'[c].permissions.t # "unread") =>
            /\ publicKey[c] # NilKey
            /\ token[c].signer = publicKey[c]
            /\ libNow[c] >= 1]_vars

\* an attempt made both calls, in this order
C12_Witness ==
  \E c \in Conns :
    /\ Finished(c) /\ calls[c] = <<"RegisterUser", "setExpiration">>
    /\ token[c].signer = publicKey[c] /\ token[c].permissions.t = "object"

\* C15: defaulting is idempotent and changes no group the permissions claim
\* holds: a claim with all three groups is left as it is, mapping the
\* defaulted claim again gives the same policy, and every group of the claim
\* that is an object is in the policy with the fields it was given.
C15_DefaultingKeepsGroups ==
  \A c \in Conns :
    user[c].registered =>
      LET p == token[c].permissions
          q == user[c].Permissions
      IN
        /\ DefaultPermissionsClaim(DefaultPermissionsClaim(p)) =
             DefaultPermissionsClaim(p)
        /\ MapPermissions(DefaultPermissionsClaim(p)) = q
        /\ ("absent" \notin {p.publish.t, p.subscribe.t, p.responses.t}) =>
             DefaultPermissionsClaim(p) = p
        /\ p.publish.t = "object" =>
             q.publish =
               [nil |-> FALSE, allow |-> p.publish.allow, deny |-> p.publish.deny]
        /\ p.subscribe.t = "object" =>
             q.subscribe =
               [nil |-> FALSE, allow |-> p.subscribe.allow,
                deny |-> p.subscribe.deny]
        /\ p.responses.t = "object" =>
             q.responses =
               [nil |-> FALSE, max |-> p.responses.max, ttl |-> p.responses.ttl]

\* a claim with publish only: publish is kept, the other two are defaults
C15_Witness ==
  \E c \in Conns :
    /\ user[c].registered
    /\ token[c].permissions.publish =
         [t |-> "object", allow |-> <<"orders.*">>, deny |-> <<"orders.secret">>]
    /\ token[c].permissions.subscribe.t = "absent"
    /\ token[c].permissions.responses.t = "absent"
    /\ user[c].Permissions.publish.deny = <<"orders.secret">>
    /\ user[c].Permissions.subscribe.allow = <<>>
    /\ user[c].Permissions.responses.max = DEFAULT_ALLOW_RESPONSE_MAX_MSGS

\* C17: setExpiration is called at most once in an attempt and only by an
\* attempt that returns true after RegisterUser; an attempt that returns false
\* leaves the connection without an expiration.
C17_ExpirationOnlyWhenAdmitted ==
  \A c \in Conns :
    /\ Count(calls[c], "setExpiration") <= 1
    /\ Count(calls[c], "setExpiration") = 1 =>
         /\ Finished(c) /\ result[c] = "true"
         /\ calls[c] = <<"RegisterUser", "setExpiration">>
    /\ expires[c] # 0 => Count(calls[c], "setExpiration") = 1
    /\ result[c] = "false" =>
         (expires[c] = 0 /\ Count(calls[c], "setExpiration") = 0)

\* an attempt that registered the user and was then denied set no expiration
C17_Witness ==
  \E c \in Conns :
    /\ Finished(c) /\ result[c] = "false" /\ site[c] = 134
    /\ calls[c] = <<"RegisterUser">> /\ expires[c] = 0

\* C18: an expiration set on a connection is the whole seconds of the token's
\* exp and is strictly after the time the attempt read; an exp whose whole
\* seconds are 0 or at or before that time gives neither an expiration nor an
\* admission on a real connection.
C18_DeadlineAfterNow ==
  \A c \in Conns :
    /\ expires[c] # 0 =>
         /\ token[c].exp.t = "float64"
         /\ expires[c] = ToInt64(token[c].exp.v)
         /\ nowRead[c] >= 1
         /\ expires[c] > nowRead[c]
    /\ ( /\ Finished(c) /\ kind[c] = "client"
         /\ \/ ToInt64(token[c].exp.v) = 0
            \/ ToInt64(token[c].exp.v) <= nowRead[c] ) =>
         (result[c] = "false" /\ expires[c] = 0)

\* an exp half a second after the time read is cut to that time and denied
C18_Witness ==
  \E c \in Conns :
    /\ Finished(c) /\ kind[c] = "client" /\ site[c] = 134
    /\ token[c].exp.v = 2 * nowRead[c] + 1
    /\ expires[c] = 0

\* C11: when the configured key is absent or does not parse, construction ends
\* with an error and no authenticator, so no Check ever runs; when it succeeds
\* the store holds exactly the configured key, under its fingerprint, and no
\* Check has run before that.
C11_ConstructionAllOrNothing ==
  /\ auth = "ok" =>
       /\ ParseRSAPublicKeyFromPEM(env) = ConfiguredKey
       /\ DOMAIN jwks = {FingerprintLegacyMD5(ConfiguredKey)}
       /\ jwks[FingerprintLegacyMD5(ConfiguredKey)] = ConfiguredKey
  /\ (ParseRSAPublicKeyFromPEM(env) = NilKey /\ auth # "none") =>
       /\ auth = "error"
       /\ ~crashed
       /\ jwks = EmptyJwks
  /\ auth # "ok" =>
       \A c \in Conns :
         /\ pc[c] = "idle"
         /\ calls[c] = <<>>
         /\ keyReads[c] = {}
         /\ ~user[c].registered

\* construction failed on an unparsable key and nothing was stored
C11_Witness ==
  /\ env = "garbage"
  /\ auth = "error"
  /\ jwks = EmptyJwks

\* C16: when the fingerprint of the configured key cannot be computed, the
\* failure is logged, construction completes without a crash and the store
\* has no entry for the key.
C16_FingerprintFailureSkipsKey ==
  ( /\ ParseRSAPublicKeyFromPEM(env) # NilKey
    /\ sshFails
    /\ (warned \/ crashed \/ auth # "none") ) =>
    /\ warned
    /\ ~crashed
    /\ auth = "ok"
    /\ jwks = EmptyJwks

\* C13: after construction no step of any attempt, in any interleaving of the
\* attempts of several connections, changes the key store.
C13_KeyStoreNeverMutated == [][jwks' = jwks]_vars

\* one attempt missed the store and was denied while another, which found its
\* key, is still in progress; the store is as construction left it
C13_Witness ==
  \E c, d \in Conns :
    /\ c # d
    /\ pc[c] = "verify" /\ keyReads[c] = {"fp1"} /\ publicKey[c] = ConfiguredKey
    /\ Finished(d) /\ keyReads[d] = {"fp2"} /\ site[d] = 78
    /\ jwks = [f \in {FingerprintLegacyMD5(ConfiguredKey)} |-> ConfiguredKey]

\* C14: in any interleaving of attempts on distinct connections, the user and
\* the expiration of a connection change only in a step of that connection's
\* own attempt, a connection whose attempt has not reached RegisterUser has
\* neither, and a finished attempt's result, user and expiration are those of
\* the same attempt run alone with the same token, store and clock readings.
C14_ConnectionScoped ==
  [][\A c \in Conns :
       /\ (user'[c] # user[c] \/ expires'[c] # expires[c]) =>
            /\ pc'[c] # pc[c]
            /\ \A d \in Conns \ {c} :
                 pc'[d] = pc[d] /\ user'[d] = user[d]
                   /\ expires'[d] = expires[d]
       /\ pc'[c] \in {"idle", "parse", "keyfunc", "verify", "map",
                      "register"} =>
            (user'[c] = NoUser /\ expires'[c] = 0)
       /\ user'[c].registered <=> Count(calls'[c], "RegisterUser") = 1
       /\ expires'[c] # 0 <=> Count(calls'[c], "setExpiration") = 1
       /\ pc'[c] = "done" =>
            LET a == CheckAlone(token'[c], kind'[c], jwks', libNow'[c],
                                nowRead'[c]) IN
              /\ result'[c] = a.result
              /\ site'[c] = a.site
              /\ user'[c] = a.user
              /\ expires'[c] = a.expires]_vars

\* two attempts are in progress at once: one has registered its user, with
\* its own policy, while the other, with another policy, has not yet
C14_Witness ==
  \E c, d \in Conns :
    /\ c # d
    /\ pc[c] = "expire" /\ user[c].registered
    /\ pc[d] = "register" /\ ~user[d].registered
    /\ user[c].Permissions = permissions[c]
    /\ permissions[c] # permissions[d]

\* C19: IsNatsErr(err, ids...) is true exactly when err is an API error whose
\* code is the code of one of the given identifiers that the catalogue knows;
\* it is false for a nil error and for an error of another type, and taking
\* the unknown identifiers out of the list does not change the answer.
C19_IsNatsErrMatchesKnownIds ==
  apiOp = "IsNatsErr" =>
    /\ apiOut.match <=>
         /\ apiErr.t = "api"
         /\ \E i \in DOMAIN apiIds :
              /\ apiIds[i] \in KnownIds
              /\ apiErr.ErrCode = ApiErrors[apiIds[i]].ErrCode
    /\ apiErr \in {NilError, OtherError} => ~apiOut.match
    /\ apiOut.match =
         IsNatsErr(apiErr, SelectSeq(apiIds, LAMBDA id : id \in KnownIds))

\* IsNatsErr(&ApiError{ErrCode: 10039}, 1, JSClusterNotActiveErr,
\* JSNotEnabledForAccountErr) is true
C19_Witness ==
  /\ apiOp = "IsNatsErr"
  /\ apiErr = LiteralError(JSNotEnabledForAccountErr)
  /\ apiIds = <<1, JSClusterNotActiveErr, JSNotEnabledForAccountErr>>
  /\ apiOut.match

\* C20: E.ErrOr(err) and E.ErrOrNewT(err, ...) return err itself when err is an
\* API error; otherwise ErrOr returns E and ErrOrNewT a new instance of E with
\* the description filled in; the result is an API error that IsNatsErr
\* matches with err's identifier, or else with E's.
C20_ErrOrKeepsApiError ==
  apiOp \in {"ErrOr", "ErrOrNewT"} =>
    /\ apiOut.err.t = "api"
    /\ apiErr.t = "api" => apiOut.err = apiErr
    /\ (apiErr.t # "api" /\ apiOp = "ErrOr") =>
         apiOut.err = ApiErrors[apiRecv]
    /\ (apiErr.t # "api" /\ apiOp = "ErrOrNewT") =>
         /\ apiOut.err # ApiErrors[apiRecv]
         /\ apiOut.err.instance = "new"
         /\ apiOut.err.Description = "filled"
         /\ apiOut.err.ErrCode = ApiErrors[apiRecv].ErrCode
    /\ IF apiErr.t = "api"
         THEN apiErr.ErrCode \in KnownIds =>
                IsNatsErr(apiOut.err, <<apiErr.ErrCode>>)
         ELSE IsNatsErr(apiOut.err, <<apiRecv>>)

\* ErrOrNewT(nil, ...) gave a new instance that matches the receiver's
\* identifier
C20_Witness ==
  /\ apiOp = "ErrOrNewT"
  /\ apiErr = NilError
  /\ apiOut.err.instance = "new"
  /\ IsNatsErr(apiOut.err, <<apiRecv>>)

====
